---- MODULE Spec2Model ----
(***************************************************************************)
(* A model of the rolling per-caller memory mechanism of rw_agent:         *)
(*   src/src/agent_logic.py  the session store, reply generation and the   *)
(*                           session summarizer,                           *)
(*   src/src/server.py       the /chat and /end handlers, the background   *)
(*                           summarization unit and the shutdown handler,  *)
(*   src/src/memory.py       the persistent memory table and call          *)
(*                           finalization,                                 *)
(*   src/src/bot.py          the pipeline task of a call and the handler   *)
(*                           of its client's disconnection.                *)
(* Python strings are sequences of one-character strings where the code    *)
(* looks inside them (strip, len) and sequences of tokens (whole fixed     *)
(* texts) where it only concatenates them.                                 *)
(***************************************************************************)
EXTENDS Integers, Sequences, FiniteSets, TLC

VARIABLES
  client,            \* TRUE iff the setup block initialised client and memory_collection
  active_sessions,   \* session id -> transcript (a function on the ids present)
  memory_collection, \* the long-term index: a set of fragments
  tasks,             \* the asyncio tasks created by /end, in creation order
  background_tasks,  \* the registry: session id -> index of a task in tasks
  requests,          \* the /chat requests received, in arrival order
  shutdown,          \* the shutdown handler: where it is, and what it awaits
  pipeline,          \* phone -> the conversation pipeline task of its call
  call_memory,       \* the call_memory table: whether it exists, and its rows
  written,           \* history: the texts upserted for each identity, in order
  appended,          \* history: turns appended to each session since it was created
  last,              \* history: the last operation on the session side
  lastMem,           \* history: the last operation on the memory-table side
  nops               \* history: number of operations performed so far

vars == <<client, active_sessions, memory_collection, tasks, background_tasks,
          requests, shutdown, pipeline, call_memory, written, appended, last,
          lastMem, nops>>

sessionVars == <<client, active_sessions, memory_collection, tasks,
                 background_tasks, requests, shutdown, appended, last>>

memVars == <<call_memory, written, lastMem, pipeline>>

(***************************************************************************)
(* Bounds of the model.                                                    *)
(***************************************************************************)
MaxOps == 4

MaxLongOps == 7

MaxMemOps == 5

MaxTasks == 2

MaxRequests == 2

MaxShutdownOps == 3

MaxCallOps == 5

MaxWindowOps == 6

SessionIds == {"s1", "s2"}

Phones == {"p1", "p2"}

(***************************************************************************)
(* Python values.                                                          *)
(***************************************************************************)
Str(s) == [kind |-> "str", val |-> s]

NoneVal == [kind |-> "None", val |-> <<>>]

Raised == [kind |-> "raise", val |-> <<>>]

IsSpace(c) == c \in {" ", "\t", "\n"}

RECURSIVE LStrip(_)
LStrip(s) == IF s # <<>> /\ IsSpace(Head(s)) THEN LStrip(Tail(s)) ELSE s

RECURSIVE RStrip(_)
RStrip(s) ==
  IF s # <<>> /\ IsSpace(s[Len(s)]) THEN RStrip(SubSeq(s, 1, Len(s) - 1)) ELSE s

\* str.strip()
Strip(s) == RStrip(LStrip(s))

\* sep.join(parts)
RECURSIVE Join(_, _)
Join(sep, parts) ==
  IF parts = <<>> THEN <<>>
  ELSE IF Len(parts) = 1 THEN parts[1]
  ELSE parts[1] \o sep \o Join(sep, Tail(parts))

\* d[k] = v on a dict
Put(f, k, v) == [x \in DOMAIN f \cup {k} |-> IF x = k THEN v ELSE f[x]]

\* del d[k]
Del(f, k) == [x \in DOMAIN f \ {k} |-> f[x]]

\* [x for x in s if x]
RECURSIVE Truthy(_)
Truthy(s) ==
  IF s = <<>> THEN <<>>
  ELSE (IF Head(s) # <<>> THEN <<Head(s)>> ELSE <<>>) \o Truthy(Tail(s))

(***************************************************************************)
(* Inputs.                                                                 *)
(***************************************************************************)
\* user_text: "", "   ", " ok ", "hey", " yes "
Utterances ==
  { <<>>, <<" ", " ", " ">>, <<" ", "o", "k", " ">>,
    <<"h", "e", "y">>, <<" ", "y", "e", "s", " ">> }

\* the utterances of the long conversations
LongUtterances == { <<"h", "e", "y">> }

\* response.choices[0].message.content of the reply completion: the stub service
\* answers by the number of messages it was sent
ReplyContent(messages) ==
  IF Len(messages) % 3 = 0 THEN <<" ", "j", "i">>
  ELSE IF Len(messages) % 3 = 1 THEN <<"h", "a", "a", "n", " ">>
  ELSE <<"o", "k">>

\* response.choices[0].message.content of the summary completion
NoteContents == { <<"n", "1", " ">>, <<" ">> }

Fail == [ok |-> FALSE, content |-> <<>>]

Returns(c) == [ok |-> TRUE, content |-> c]

\* outcomes of a completion call: an exception, or a response with content
ReplyOutcomes(messages) == {Fail, Returns(ReplyContent(messages))}

NoteOutcomes == {Fail} \cup {Returns(c) : c \in NoteContents}

(***************************************************************************)
(* agent_logic.py: constants and the session store.                        *)
(***************************************************************************)
AGENT_SYSTEM_PROMPT == <<"AGENT_SYSTEM_PROMPT">>

SorryMsg == <<"Sorry, I'm having trouble processing that.">>

FallbackMsg == <<"[pauses] Sorry, something went wrong while responding.">>

MinLength == 3

TrimThreshold == 9

KeepLast == 8

NResults == 3

Turn(role, content) == [role |-> role, content |-> content]

\* history[-n:]
LastN(history, n) ==
  IF Len(history) <= n THEN history
  ELSE SubSeq(history, Len(history) - n + 1, Len(history))

\* history[-9:] in place of [history[0]] + history[-8:]
get_or_create_session_keeps_tail(store, sid) ==
  LET s0 == IF sid \in DOMAIN store THEN store ELSE Put(store, sid, <<>>)
      history == s0[sid]
  IN IF Len(history) > TrimThreshold
     THEN Put(s0, sid, LastN(history, KeepLast + 1))
     ELSE s0

\* a session created with the system turn already in it
get_or_create_session_seeds(store, sid) ==
  LET s0 == IF sid \in DOMAIN store THEN store
            ELSE Put(store, sid, <<Turn("system", AGENT_SYSTEM_PROMPT)>>)
      history == s0[sid]
  IN IF Len(history) > TrimThreshold
     THEN Put(s0, sid, <<history[1]>> \o LastN(history, KeepLast))
     ELSE s0

\* get_or_create_session: the store after the call; the call returns store[sid]
get_or_create_session(store, sid) ==
  LET s0 == IF sid \in DOMAIN store THEN store ELSE Put(store, sid, <<>>)
      history == s0[sid]
  IN IF Len(history) > TrimThreshold
     THEN Put(s0, sid, <<history[1]>> \o LastN(history, KeepLast))
     ELSE s0

\* active_sessions[session_id].clear() in place of del
clear_session_empties(store, sid) == Put(store, sid, <<>>)

\* clear_session: the store after the call
clear_session(store, sid) ==
  IF sid \in DOMAIN store THEN Del(store, sid) ELSE store

(***************************************************************************)
(* agent_logic.py: generate_agent_reply.                                   *)
(***************************************************************************)
\* an external call: the service, what was passed to it, and whether it
\* returned (ok) or raised
Call(svc, arg, ok) == [svc |-> svc, arg |-> arg, ok |-> ok]

QueryFail == [ok |-> FALSE, documents |-> <<>>]

\* the sequences of k distinct elements of S
Orderings(S, k) ==
  {q \in [1..k -> S] : \A i, j \in 1..k : q[i] = q[j] => i = j}

Smaller(a, b) == IF a < b THEN a ELSE b

\* memory_collection.query(query_texts=[user_text], n_results=3): it raises, or
\* returns {"documents": [docs]}, at most n_results stored documents in the
\* order the index's similarity gives them (any order, for the model)
QueryOutcomes(coll) ==
  LET docs == {f.document : f \in coll}
  IN {QueryFail} \cup
     { [ok |-> TRUE, documents |-> <<q>>] :
         q \in Orderings(docs, Smaller(NResults, Cardinality(docs))) }

EnrichedPrompt(memory_context) ==
  AGENT_SYSTEM_PROMPT \o <<"\n\n", "Before replying, recall:\n">>
    \o memory_context \o <<"\n\n", "Think of this as your own memory.">>

\* the enriched prompt added as a separate message
replace_system_appends(history, prompt) ==
  Append(history, Turn("system", prompt))

\* history[0] = {"role": "system", "content": enriched_prompt}
replace_system(history, prompt) ==
  [history EXCEPT ![1] = Turn("system", prompt)]

\* the seeding of a new session: the transcript it leaves, and whether the
\* retrieval query raised
seed_session(qres) ==
  LET h1 == <<Turn("system", AGENT_SYSTEM_PROMPT)>>
  IN IF ~qres.ok THEN [history |-> h1, raised |-> TRUE]
     ELSE IF qres.documents # <<>>
     THEN LET docs == Truthy(qres.documents[1])
              memory_context == IF docs # <<>> THEN Join(<<" ">>, docs) ELSE <<>>
          IN [history |-> replace_system(h1, EnrichedPrompt(memory_context)),
              raised |-> FALSE]
     ELSE [history |-> h1, raised |-> FALSE]

\* seeding while the transcript holds no user or assistant turn yet
needs_seed_until_dialogue(history) == Len(history) <= 1

\* if not history: ...
needs_seed(history) == history = <<>>

\* len(user_text.strip()) < 3
too_short(user_text) == Len(Strip(user_text)) < MinLength

\* the except clause taking the user turn back
on_completion_error_rolls_back(store, sid, history, calls) ==
  [store |-> Put(store, sid, SubSeq(history, 1, Len(history) - 1)),
   calls |-> calls, result |-> Str(FallbackMsg)]

\* what the except clause leaves behind when the completion call raised
on_completion_error(store, sid, history, calls) ==
  [store |-> Put(store, sid, history), calls |-> calls,
   result |-> Str(FallbackMsg)]

\* generate_agent_reply: the store it leaves, the external calls it made in
\* order, and what it returned
generate_agent_reply(store, cl, sid, user_text, qres, cres) ==
  IF user_text = <<>> \/ ~cl
  THEN [store |-> store, calls |-> <<>>, result |-> Str(SorryMsg)]
  ELSE IF too_short(user_text)
  THEN [store |-> store, calls |-> <<>>, result |-> Str(<<>>)]
  ELSE
    LET s1 == get_or_create_session(store, sid)
        fresh == needs_seed(s1[sid])
        seeded == IF fresh THEN seed_session(qres)
                  ELSE [history |-> s1[sid], raised |-> FALSE]
        c1 == IF fresh THEN <<Call("query", user_text, qres.ok)>> ELSE <<>>
    IN IF seeded.raised
       THEN [store |-> Put(s1, sid, seeded.history), calls |-> c1,
             result |-> Str(FallbackMsg)]
       ELSE
         LET h2 == Append(seeded.history, Turn("user", user_text))
             c2 == Append(c1, Call("completion", h2, cres.ok))
         IN IF ~cres.ok
            THEN on_completion_error(s1, sid, h2, c2)
            ELSE LET reply == Strip(cres.content)
                 IN [store |-> Put(s1, sid, Append(h2, Turn("assistant", reply))),
                     calls |-> c2, result |-> Str(reply)]

(***************************************************************************)
(* agent_logic.py: summarize_session.                                      *)
(***************************************************************************)
Dialogue(history) == SelectSeq(history, LAMBDA m : m.role \in {"user", "assistant"})

\* "\n".join(f"{m['role']}: {m['content']}" for m in ... if user/assistant)
convo_text(history) ==
  LET d == Dialogue(history)
  IN Join(<<"\n">>, [i \in 1..Len(d) |-> <<d[i].role, ": ">> \o d[i].content])

SummaryPrompt(convo) ==
  <<"You are Miss Riverwood's internal memory system.">> \o convo
    \o <<"\n\n", "Memory note:">>

Fragment(text, sid) ==
  [id |-> <<"mem_">> \o text, document |-> text, session_id |-> sid]

\* memory_collection.add(ids, documents, metadatas): an id already stored is
\* not stored again
collection_add(coll, frag) ==
  IF \E f \in coll : f.id = frag.id THEN coll ELSE coll \cup {frag}

\* if not session_history: (the session is missing or its list is empty)
no_session(store, sid) == sid \notin DOMAIN store \/ store[sid] = <<>>

\* summarize_session: the index it leaves, the external calls it made, what it
\* returned, and the transcript it summarized (<<>>: none)
summarize_session(store, cl, coll, sid, cres, addOk) ==
  LET nothing == [coll |-> coll, calls |-> <<>>, result |-> NoneVal, read |-> <<>>]
  IN IF ~cl THEN nothing
     ELSE IF no_session(store, sid) THEN nothing
     ELSE
       LET prompt == SummaryPrompt(convo_text(store[sid]))
           calls == <<Call("completion", <<Turn("system", prompt)>>, cres.ok)>>
           failed == [coll |-> coll, calls |-> calls, result |-> NoneVal,
                      read |-> store[sid]]
       IN IF ~cres.ok THEN failed
          ELSE LET insight_text == Strip(cres.content)
               IN IF insight_text = <<>> THEN failed
                  ELSE IF ~addOk THEN failed
                  ELSE [coll |-> collection_add(coll, Fragment(insight_text, sid)),
                        calls |-> calls, result |-> Str(insight_text),
                        read |-> store[sid]]

(***************************************************************************)
(* memory.py: the call_memory table and call finalization.                 *)
(***************************************************************************)
\* the database file before CREATE TABLE has run
NoTable == [exists |-> FALSE, rows |-> {}]

Table(rows) == [exists |-> TRUE, rows |-> rows]

\* str(conversation_messages) of a finished call
Transcripts == { <<"t1">>, <<"t2">> }

\* completion.choices[0].message.content of the memory-note completion
MemoContents == { <<"m1">>, <<"m2">>, <<>> }

MemoOutcomes == {Fail} \cup {Returns(c) : c \in MemoContents}

Row(phone, summary) == [phone |-> phone, last_summary |-> summary]

\* CREATE TABLE IF NOT EXISTS call_memory (phone TEXT PRIMARY KEY, ...)
init_db(table) == IF table.exists THEN table ELSE Table({})

\* SELECT last_summary FROM call_memory WHERE phone = ?; fetchone();
\* row[0] if row else None. It raises when the table is missing or the
\* storage fails (ioOk = FALSE).
get_summary(table, phone, ioOk) ==
  IF ~table.exists \/ ~ioOk THEN Raised
  ELSE LET rows == {r \in table.rows : r.phone = phone}
       IN IF rows = {} THEN NoneVal
          ELSE Str((CHOOSE r \in rows : TRUE).last_summary)

\* save_summary raises, and leaves the table as it was, when the table is
\* missing or the storage fails
save_raises(table, ioOk) == ~table.exists \/ ~ioOk

\* INSERT on a table without the primary key
save_summary_inserts(table, phone, summary, ioOk) ==
  IF save_raises(table, ioOk) THEN table
  ELSE Table(table.rows \cup {Row(phone, summary)})

\* INSERT OR REPLACE INTO call_memory (phone, last_summary) VALUES (?, ?);
\* commit: the table it leaves
save_summary(table, phone, summary, ioOk) ==
  IF save_raises(table, ioOk) THEN table
  ELSE Table({r \in table.rows : r.phone # phone} \cup {Row(phone, summary)})

\* the previous note never merged
has_previous_never(previous) == FALSE

\* if previous_summary: (None and "" are false)
has_previous(previous) == previous.kind = "str" /\ previous.val # <<>>

\* user_msg of summarize_conversation
user_msg(conversation_messages, previous) ==
  IF has_previous(previous)
  THEN <<"PREVIOUS MEMORY:\n">> \o previous.val \o <<"\n\n", "NEW CONVERSATION:\n">>
         \o conversation_messages \o <<"\n\n", "Generate the updated memory note:">>
  ELSE <<"NEW CONVERSATION:\n">> \o conversation_messages
         \o <<"\n\n", "Generate the memory note:">>

MEMORY_SUMMARY_PROMPT == <<"MEMORY_SUMMARY_PROMPT">>

\* summarize_conversation: the completion call it makes
summarize_conversation(conversation_messages, previous, cres) ==
  Call("completion",
       <<Turn("system", MEMORY_SUMMARY_PROMPT),
         Turn("user", user_msg(conversation_messages, previous))>>, cres.ok)

\* finalize_call: the table it leaves, the calls it made (storage and
\* completion) in order, and what it returned (Raised: an exception left it)
finalize_call(table, phone, conversation_messages, readOk, cres, writeOk) ==
  LET previous == get_summary(table, phone, readOk)
      c1 == <<Call("get", phone, previous # Raised)>>
  IN IF previous = Raised
     THEN [table |-> table, calls |-> c1, result |-> Raised]
     ELSE
       LET c2 == Append(c1, summarize_conversation(conversation_messages, previous, cres))
           c3 == Append(c2, Call("save", phone, ~save_raises(table, writeOk)))
       IN IF ~cres.ok
          THEN [table |-> table, calls |-> c2, result |-> Raised]
          ELSE IF save_raises(table, writeOk)
          THEN [table |-> table, calls |-> c3, result |-> Raised]
          ELSE [table |-> save_summary(table, phone, cres.content, writeOk),
                calls |-> c3, result |-> Str(cres.content)]

(***************************************************************************)
(* The state after construction.                                           *)
(***************************************************************************)
NoOp == [op |-> "none", sid |-> "", text |-> <<>>, pre |-> <<>>,
         calls |-> <<>>, result |-> NoneVal]

\* the shutdown handler has not been called
NotShuttingDown == [phase |-> "idle", pendingAt |-> {}, awaited |-> {}]

\* chroma_data persists across runs: the index a run starts with
PersistedIndexes == { {}, {Fragment(<<"o", "l", "d">>, "s0")} }

Init ==
  /\ client \in BOOLEAN
  /\ active_sessions = <<>>
  /\ memory_collection \in PersistedIndexes
  /\ tasks = <<>>
  /\ background_tasks = <<>>
  /\ requests = <<>>
  /\ shutdown = NotShuttingDown
  /\ pipeline = [p \in Phones |-> "none"]
  /\ call_memory = NoTable
  /\ appended = [s \in SessionIds |-> 0]
  /\ last = NoOp
  /\ written = [p \in Phones |-> <<>>]
  /\ lastMem = NoOp
  /\ nops = 0

(***************************************************************************)
(* Operations on the session side.                                         *)
(***************************************************************************)
Op(op, sid, text, calls, result) ==
  [op |-> op, sid |-> sid, text |-> text, pre |-> active_sessions,
   calls |-> calls, result |-> result]

\* POST /chat: generate_agent_reply(session_id, user_text). The coroutine
\* awaits nothing (the completion and index clients are synchronous), so the
\* whole call is one step of the event loop.
Chat(sid, user_text, qres, cres) ==
  /\ LET r == generate_agent_reply(active_sessions, client, sid, user_text, qres, cres)
         base == get_or_create_session(active_sessions, sid)
     IN /\ active_sessions' = r.store
        /\ appended' =
             IF r.calls = <<>> THEN appended
             ELSE [appended EXCEPT ![sid] = @ + Len(r.store[sid]) - Len(base[sid])]
        /\ last' = Op("reply", sid, user_text, r.calls, r.result)
  /\ nops' = nops + 1
  /\ UNCHANGED <<client, memory_collection, tasks, background_tasks, requests,
                 shutdown, memVars>>

\* a direct call of get_or_create_session(session_id)
GetOrCreate(sid) ==
  /\ active_sessions' = get_or_create_session(active_sessions, sid)
  /\ last' = Op("get_or_create", sid, <<>>, <<>>, NoneVal)
  /\ nops' = nops + 1
  /\ UNCHANGED <<client, memory_collection, tasks, background_tasks, requests,
                 shutdown, appended, memVars>>

\* a direct call of clear_session(session_id)
Clear(sid) ==
  /\ active_sessions' = clear_session(active_sessions, sid)
  /\ appended' = [appended EXCEPT ![sid] = 0]
  /\ last' = Op("clear", sid, <<>>, <<>>, NoneVal)
  /\ nops' = nops + 1
  /\ UNCHANGED <<client, memory_collection, tasks, background_tasks, requests,
                 shutdown, memVars>>

\* POST /end: clear the session, then create and register the background task
EndSession(sid) ==
  /\ Len(tasks) < MaxTasks
  /\ active_sessions' = clear_session(active_sessions, sid)
  /\ appended' = [appended EXCEPT ![sid] = 0]
  /\ tasks' = Append(tasks,
       [sid |-> sid, status |-> "pending",
        atEnd |-> IF sid \in DOMAIN active_sessions THEN active_sessions[sid] ELSE <<>>,
        env |-> Fail, addOk |-> FALSE, read |-> <<>>, result |-> NoneVal])
  /\ background_tasks' = Put(background_tasks, sid, Len(tasks) + 1)
  /\ last' = Op("end", sid, <<>>, <<>>, Str(<<"Session ended">>))
  /\ nops' = nops + 1
  /\ UNCHANGED <<client, memory_collection, requests, shutdown, memVars>>

\* task i is the oldest task that has not taken its first step
FirstToStep(i) ==
  \A j \in 1..(i - 1) : tasks[j].status \in {"done", "cancelled"}

\* the task of background_summarize(session_id) runs: summarize_session, then
\* the finally clause drops the registry entry of the session id. The task
\* created by /end first runs at a later turn of the event loop, so handlers
\* that are ready before it (a /chat, another /end) run in between; once it
\* runs it never suspends (summarize_session awaits nothing). The loop runs
\* the first steps of tasks in the order the tasks were created.
BackgroundSummarize(i, cres, addOk) ==
  /\ i \in 1..Len(tasks)
  /\ tasks[i].status = "pending"
  /\ FirstToStep(i)
  /\ LET sid == tasks[i].sid
         r == summarize_session(active_sessions, client, memory_collection,
                                sid, cres, addOk)
     IN /\ memory_collection' = r.coll
        /\ tasks' = [tasks EXCEPT ![i] =
             [@ EXCEPT !.status = "done", !.env = cres, !.addOk = addOk,
                       !.read = r.read, !.result = r.result]]
        /\ background_tasks' =
             IF sid \in DOMAIN background_tasks
             THEN Del(background_tasks, sid) ELSE background_tasks
        /\ last' = Op("summarize", sid, <<>>, r.calls, r.result)
  /\ nops' = nops + 1
  /\ UNCHANGED <<client, active_sessions, requests, shutdown, appended, memVars>>

(***************************************************************************)
(* server.py: the shutdown handler.                                        *)
(***************************************************************************)
\* background_tasks.values()
Registered == {background_tasks[s] : s \in DOMAIN background_tasks}

Finished(i) == tasks[i].status \in {"done", "cancelled"}

\* cleanup_background_tasks up to its await: task.cancel() on every task of
\* the registry, then asyncio.gather(*background_tasks.values(),
\* return_exceptions=True), which is done at once when it is given no task
CleanupBegin ==
  /\ shutdown.phase = "idle"
  /\ tasks' = [i \in 1..Len(tasks) |->
       IF i \in Registered /\ tasks[i].status = "pending"
       THEN [tasks[i] EXCEPT !.status = "cancelling"] ELSE tasks[i]]
  /\ shutdown' =
       [phase |-> IF Registered = {} THEN "done" ELSE "awaiting",
        pendingAt |-> {i \in 1..Len(tasks) : tasks[i].status = "pending"},
        awaited |-> Registered]
  /\ nops' = nops + 1
  /\ UNCHANGED <<client, active_sessions, memory_collection, background_tasks,
                 requests, appended, last, memVars>>

\* the first step of a task cancelled before it started: CancelledError is
\* thrown into the coroutine before its first line, so neither the try block
\* nor the finally clause of background_summarize runs
TaskCancelled(i) ==
  /\ i \in 1..Len(tasks)
  /\ tasks[i].status = "cancelling"
  /\ FirstToStep(i)
  /\ tasks' = [tasks EXCEPT ![i] = [@ EXCEPT !.status = "cancelled"]]
  /\ nops' = nops + 1
  /\ UNCHANGED <<client, active_sessions, memory_collection, background_tasks,
                 requests, shutdown, appended, last, memVars>>

\* cleanup_background_tasks resumes from the gather once every task it was
\* given has finished (return_exceptions=True: the outcomes are collected,
\* none is raised), logs and returns
CleanupEnd ==
  /\ shutdown.phase = "awaiting"
  /\ \A i \in shutdown.awaited : Finished(i)
  /\ shutdown' = [shutdown EXCEPT !.phase = "done"]
  /\ nops' = nops + 1
  /\ UNCHANGED <<client, active_sessions, memory_collection, tasks,
                 background_tasks, requests, appended, last, memVars>>

(***************************************************************************)
(* Operations on the memory table.                                         *)
(***************************************************************************)
MemOp(op, phone, text, calls, result) ==
  [op |-> op, sid |-> phone, text |-> text, pre |-> call_memory,
   calls |-> calls, result |-> result]

\* init_db()
InitDb ==
  /\ call_memory' = init_db(call_memory)
  /\ lastMem' = MemOp("init_db", "", <<>>, <<>>, NoneVal)
  /\ nops' = nops + 1
  /\ UNCHANGED <<written, pipeline, sessionVars>>

\* get_summary(phone)
GetSummary(phone, ioOk) ==
  /\ lastMem' = MemOp("get", phone, <<>>, <<>>, get_summary(call_memory, phone, ioOk))
  /\ nops' = nops + 1
  /\ UNCHANGED <<call_memory, written, pipeline, sessionVars>>

\* save_summary(phone, summary)
SaveSummary(phone, summary, ioOk) ==
  /\ call_memory' = save_summary(call_memory, phone, summary, ioOk)
  /\ written' = IF save_raises(call_memory, ioOk) THEN written
                ELSE [written EXCEPT ![phone] = Append(@, summary)]
  /\ lastMem' = MemOp("save", phone, summary, <<>>,
                      IF save_raises(call_memory, ioOk) THEN Raised ELSE NoneVal)
  /\ nops' = nops + 1
  /\ UNCHANGED <<pipeline, sessionVars>>

\* finalize_call(phone, conversation_messages)
FinalizeCall(phone, conversation_messages, readOk, cres, writeOk) ==
  /\ LET r == finalize_call(call_memory, phone, conversation_messages,
                            readOk, cres, writeOk)
     IN /\ call_memory' = r.table
        /\ written' = IF r.result = Raised THEN written
                      ELSE [written EXCEPT ![phone] = Append(@, r.result.val)]
        /\ lastMem' = MemOp("finalize", phone, conversation_messages, r.calls, r.result)
  /\ nops' = nops + 1
  /\ UNCHANGED <<pipeline, sessionVars>>

(***************************************************************************)
(* bot.py: the conversation pipeline task of a call and its end.           *)
(***************************************************************************)
\* run_bot: the pipeline task of a call from the phone is created and run
RunBot(phone) ==
  /\ pipeline[phone] \in {"none", "cancelled"}
  /\ pipeline' = [pipeline EXCEPT ![phone] = "running"]
  /\ lastMem' = MemOp("run_bot", phone, <<>>, <<>>, NoneVal)
  /\ nops' = nops + 1
  /\ UNCHANGED <<call_memory, written, sessionVars>>

\* on_client_disconnected: await finalize_call(phone, context.messages), then
\* await task.cancel(); an exception leaving finalize_call ends the handler
\* before the cancel ("left_running": the client is gone, the task is not
\* cancelled)
OnClientDisconnected(phone, conversation_messages, readOk, cres, writeOk) ==
  /\ pipeline[phone] = "running"
  /\ LET r == finalize_call(call_memory, phone, conversation_messages,
                            readOk, cres, writeOk)
     IN /\ call_memory' = r.table
        /\ written' = IF r.result = Raised THEN written
                      ELSE [written EXCEPT ![phone] = Append(@, r.result.val)]
        /\ pipeline' = [pipeline EXCEPT ![phone] =
                          IF r.result = Raised THEN "left_running" ELSE "cancelled"]
        /\ lastMem' = MemOp("disconnect", phone, conversation_messages,
                            r.calls, r.result)
  /\ nops' = nops + 1
  /\ UNCHANGED sessionVars

(***************************************************************************)
(* /chat requests in flight together.                                      *)
(***************************************************************************)
\* the utterances of the requests in flight together: "hey", " yes "
ConcurrentUtterances == { <<"h", "e", "y">>, <<" ", "y", "e", "s", " ">> }

\* a /chat request is received and its handler is scheduled; it has not run
ChatArrives(sid, user_text) ==
  /\ Len(requests) < MaxRequests
  /\ requests' = Append(requests,
       [sid |-> sid, text |-> user_text, status |-> "received",
        seen |-> active_sessions,
        inflight |-> {i \in 1..Len(requests) : requests[i].status = "received"},
        ok |-> FALSE, result |-> NoneVal])
  /\ UNCHANGED <<client, active_sessions, memory_collection, tasks,
                 background_tasks, shutdown, appended, last, nops, memVars>>

\* the handler working on the transcript as it was when the request arrived
handler_store_at_arrival(req) == req.seen

\* history = get_or_create_session(session_id): the handler reads the store in
\* the step in which it appends to it and calls the services, because
\* generate_agent_reply holds no await between them
handler_store(req) == active_sessions

\* the handler of a received /chat request runs: generate_agent_reply from
\* its first line to its return, as one step of the event loop
ChatRuns(i, qres, cres) ==
  /\ i \in 1..Len(requests)
  /\ requests[i].status = "received"
  /\ LET req == requests[i]
         r == generate_agent_reply(handler_store(req), client, req.sid, req.text,
                                   qres, cres)
         base == get_or_create_session(handler_store(req), req.sid)
     IN /\ active_sessions' = r.store
        /\ appended' =
             IF r.calls = <<>> THEN appended
             ELSE [appended EXCEPT ![req.sid] =
                     @ + Len(r.store[req.sid]) - Len(base[req.sid])]
        /\ requests' = [requests EXCEPT ![i] =
             [@ EXCEPT !.status = "done", !.result = r.result,
                       !.ok = \E c \in 1..Len(r.calls) :
                                r.calls[c].svc = "completion" /\ r.calls[c].ok]]
        /\ last' = Op("reply", req.sid, req.text, r.calls, r.result)
  /\ nops' = nops + 1
  /\ UNCHANGED <<client, memory_collection, tasks, background_tasks, shutdown,
                 memVars>>

\* the messages a /chat call would send to the completion service
MessagesOf(sid, u, qres) ==
  generate_agent_reply(active_sessions, client, sid, u, qres, Fail).calls

ChatOutcomes(sid, u, qres) ==
  LET c == MessagesOf(sid, u, qres)
  IN IF c # <<>> /\ c[Len(c)].svc = "completion"
     THEN ReplyOutcomes(c[Len(c)].arg) ELSE {Fail}

\* the server: /chat, /end, the background summarization units, and direct
\* calls of the session store
Next ==
  \/ /\ nops < MaxOps
     /\ \E sid \in SessionIds, u \in Utterances :
          \E qres \in QueryOutcomes(memory_collection) :
            \E cres \in ChatOutcomes(sid, u, qres) : Chat(sid, u, qres, cres)
  \/ /\ nops < MaxOps
     /\ \E sid \in SessionIds : GetOrCreate(sid)
  \/ /\ nops < MaxOps
     /\ \E sid \in SessionIds : Clear(sid)
  \/ /\ nops < MaxOps
     /\ \E sid \in SessionIds : EndSession(sid)
  \/ /\ nops < MaxOps
     /\ \E i \in 1..MaxTasks, cres \in NoteOutcomes, addOk \in BOOLEAN :
          BackgroundSummarize(i, cres, addOk)

Spec == Init /\ [][Next]_vars

\* long conversations: the session store driven far enough for trimming
NextLong ==
  \/ /\ nops < MaxLongOps
     /\ \E sid \in SessionIds, u \in LongUtterances :
          \E qres \in QueryOutcomes(memory_collection) :
            \E cres \in ChatOutcomes(sid, u, qres) : Chat(sid, u, qres, cres)
  \/ /\ nops < MaxLongOps
     /\ \E sid \in SessionIds : GetOrCreate(sid)
  \/ /\ nops < MaxLongOps
     /\ \E sid \in SessionIds : Clear(sid)

SpecLong == Init /\ [][NextLong]_vars

\* long conversations ended by /end as well: every operation that changes the
\* session store
NextWindow ==
  \/ /\ nops < MaxWindowOps
     /\ \E sid \in SessionIds, u \in LongUtterances :
          \E qres \in QueryOutcomes(memory_collection) :
            \E cres \in ChatOutcomes(sid, u, qres) : Chat(sid, u, qres, cres)
  \/ /\ nops < MaxWindowOps
     /\ \E sid \in SessionIds : GetOrCreate(sid)
  \/ /\ nops < MaxWindowOps
     /\ \E sid \in SessionIds : Clear(sid)
  \/ /\ nops < MaxWindowOps
     /\ \E sid \in SessionIds : EndSession(sid)

SpecWindow == Init /\ [][NextWindow]_vars

\* the memory table: init_db, get_summary, save_summary and finalize_call
NextMemory ==
  \/ /\ nops < MaxMemOps
     /\ InitDb
  \/ /\ nops < MaxMemOps
     /\ \E phone \in Phones, ioOk \in BOOLEAN : GetSummary(phone, ioOk)
  \/ /\ nops < MaxMemOps
     /\ \E phone \in Phones, summary \in MemoContents, ioOk \in BOOLEAN :
          SaveSummary(phone, summary, ioOk)
  \/ /\ nops < MaxMemOps
     /\ \E phone \in Phones, t \in Transcripts, readOk \in BOOLEAN,
           cres \in MemoOutcomes, writeOk \in BOOLEAN :
          FinalizeCall(phone, t, readOk, cres, writeOk)

SpecMemory == Init /\ [][NextMemory]_vars

\* telephone calls: the table is created, calls start and clients disconnect
NextCall ==
  \/ /\ nops < MaxCallOps
     /\ InitDb
  \/ /\ nops < MaxCallOps
     /\ \E phone \in Phones : RunBot(phone)
  \/ /\ nops < MaxCallOps
     /\ \E phone \in Phones, t \in Transcripts, readOk \in BOOLEAN,
           cres \in MemoOutcomes, writeOk \in BOOLEAN :
          OnClientDisconnected(phone, t, readOk, cres, writeOk)

SpecCall == Init /\ [][NextCall]_vars

\* the server up to and through its shutdown: requests are handled until the
\* shutdown handler is called; tasks already created still take their steps
NextShutdown ==
  \/ /\ nops < MaxShutdownOps /\ shutdown.phase = "idle"
     /\ \E sid \in SessionIds, u \in LongUtterances :
          \E qres \in QueryOutcomes(memory_collection) :
            \E cres \in ChatOutcomes(sid, u, qres) : Chat(sid, u, qres, cres)
  \/ /\ nops < MaxShutdownOps /\ shutdown.phase = "idle"
     /\ \E sid \in SessionIds : EndSession(sid)
  \/ \E i \in 1..MaxTasks, cres \in NoteOutcomes, addOk \in BOOLEAN :
       BackgroundSummarize(i, cres, addOk)
  \/ CleanupBegin
  \/ \E i \in 1..MaxTasks : TaskCancelled(i)
  \/ CleanupEnd

SpecShutdown == Init /\ [][NextShutdown]_vars

\* /chat requests that are received before earlier ones have been served
NextConcurrent ==
  \/ \E sid \in SessionIds, u \in ConcurrentUtterances : ChatArrives(sid, u)
  \/ \E i \in 1..MaxRequests :
       /\ i \in 1..Len(requests)
       /\ \E qres \in QueryOutcomes(memory_collection) :
            \E cres \in ChatOutcomes(requests[i].sid, requests[i].text, qres) :
              ChatRuns(i, qres, cres)

SpecConcurrent == Init /\ [][NextConcurrent]_vars

(***************************************************************************)
(* Properties.                                                             *)
(***************************************************************************)
SystemCount(history) == Len(SelectSeq(history, LAMBDA m : m.role = "system"))

HasDialogue(history) == \E i \in 1..Len(history) : history[i].role # "system"

\* the transcript is the system turn followed by user/assistant pairs: every
\* reply of the session so far succeeded
AllRepliesSucceeded(history) ==
  /\ Len(history) % 2 = 1
  /\ \A i \in 2..Len(history) :
       history[i].role = (IF i % 2 = 0 THEN "user" ELSE "assistant")

PreOf(op) == IF op.sid \in DOMAIN op.pre THEN op.pre[op.sid] ELSE <<>>

Queries(calls) == {i \in 1..Len(calls) : calls[i].svc = "query"}

Completions(calls) == {i \in 1..Len(calls) : calls[i].svc = "completion"}

\* the utterance passes both guards of generate_agent_reply
ValidUtterance(text) ==
  text # <<>> /\ \E i, j \in 1..Len(text) :
    j >= i + 2 /\ ~IsSpace(text[i]) /\ ~IsSpace(text[j])

\* C1: after every successful reply call of a session whose reply calls all
\* succeeded, the stored transcript has min(turns appended, N + 1 = 9) turns
\* and exactly one system turn, at position 0.
C1_LengthIsMinOfAppended ==
  (/\ last.op = "reply"
   /\ last.sid \in DOMAIN active_sessions
   /\ Completions(last.calls) # {}
   /\ AllRepliesSucceeded(active_sessions[last.sid]))
  => LET history == active_sessions[last.sid]
     IN /\ Len(history) = Smaller(appended[last.sid], KeepLast + 1)
        /\ SystemCount(history) = 1
        /\ history[1].role = "system"

\* C2: once the background unit scheduled by /end for a session that held a
\* user/assistant turn has finished, with the completion service returning a
\* non-empty note and the index accepting it, the index holds a fragment tagged
\* with the session id, made from the transcript the session held at /end.
C2_EndStoresSummary ==
  \A i \in 1..Len(tasks) :
    (/\ tasks[i].status = "done"
     /\ HasDialogue(tasks[i].atEnd)
     /\ tasks[i].env.ok /\ Strip(tasks[i].env.content) # <<>>
     /\ tasks[i].addOk)
    => /\ tasks[i].read = tasks[i].atEnd
       /\ \E f \in memory_collection :
            f.session_id = tasks[i].sid /\ f.document = Strip(tasks[i].env.content)

\* C3: every stored transcript holds at most one system turn, and a system
\* turn it holds is its first element.
C3_OneSystemTurnFirst ==
  \A sid \in DOMAIN active_sessions :
    LET history == active_sessions[sid]
    IN /\ SystemCount(history) <= 1
       /\ \A i \in 1..Len(history) : history[i].role = "system" => i = 1

\* a reply that found more than 9 turns (and trimmed them) and whose
\* completion call failed
C3_Witness ==
  /\ last.op = "reply"
  /\ Len(PreOf(last)) > TrimThreshold
  /\ last.result = Str(FallbackMsg)
  /\ SystemCount(active_sessions[last.sid]) = 1

\* C4 as stated: a reply call with a non-empty utterance, components
\* initialised, on a session id not in the store issues exactly
\* one retrieval query, before any completion call; a reply call on an id
\* in the store issues none.
C4_FirstReplyQueriesOnce ==
  (last.op = "reply" /\ client /\ last.text # <<>>) =>
    IF last.sid \notin DOMAIN last.pre
    THEN /\ Cardinality(Queries(last.calls)) = 1
         /\ \A q \in Queries(last.calls), c \in Completions(last.calls) : q < c
    ELSE Queries(last.calls) = {}

\* C4 amended: a reply call with a valid utterance (non-empty, at least 3
\* characters after stripping) and the components initialised, on a session id
\* with no stored turns, issues exactly one retrieval query, and issues it
\* first (the completion call follows only when the query returned); every
\* other reply call issues no retrieval query, in particular one on an id that
\* has stored turns.
C4_ValidFirstReplyQueriesOnce ==
  last.op = "reply" =>
    IF client /\ ValidUtterance(last.text) /\ PreOf(last) = <<>>
    THEN /\ Queries(last.calls) = {1}
         /\ Completions(last.calls) \subseteq {2}
         /\ (Completions(last.calls) = {2} <=> last.calls[1].ok)
    ELSE Queries(last.calls) = {}

\* a second valid reply on a session whose first reply queried the index: it
\* went to the completion service without a query
C4_Witness ==
  /\ last.op = "reply"
  /\ ValidUtterance(last.text)
  /\ \E i \in 1..Len(PreOf(last)) : PreOf(last)[i].role = "assistant"
  /\ PreOf(last)[1].content # AGENT_SYSTEM_PROMPT
  /\ Len(last.calls) = 1 /\ last.calls[1].svc = "completion"

\* C5: a reply call, components initialised, with an utterance that is empty
\* or shorter than 3 characters after stripping returns the empty string and
\* makes no external call.
C5_ShortInputEmptyResult ==
  (/\ last.op = "reply"
   /\ client
   /\ ~ValidUtterance(last.text))
  => /\ last.result = Str(<<>>)
     /\ last.calls = <<>>

\* C6: when the completion call of a reply fails, the reply returns the fixed
\* fallback string; the stored transcript is the one the call found (trimmed
\* to its first turn and last 8 when it held more than 9, seeded with the
\* system turn when it was empty) followed by the new user turn, with no
\* assistant turn appended and no turn removed.
C6_FailedCompletionKeepsUserTurn ==
  (/\ last.op = "reply"
   /\ \E c \in Completions(last.calls) : ~last.calls[c].ok)
  => LET before == PreOf(last)
         history == active_sessions[last.sid]
         kept == SubSeq(history, 1, Len(history) - 1)
     IN /\ last.result = Str(FallbackMsg)
        /\ Len(history) >= 2
        /\ history[Len(history)] = Turn("user", last.text)
        /\ (before = <<>> => Len(kept) = 1 /\ kept[1].role = "system")
        /\ (before # <<>> /\ Len(before) <= 9 => kept = before)
        /\ (Len(before) > 9 =>
              /\ Len(kept) = 9
              /\ kept[1] = before[1]
              /\ \A i \in 2..9 : kept[i] = before[Len(before) - 9 + i])
        /\ \A x \in DOMAIN last.pre \ {last.sid} :
             x \in DOMAIN active_sessions /\ active_sessions[x] = last.pre[x]

\* a failed completion call on a session that held 11 turns, replies among
\* them, while the other session holds a transcript
C6_Witness ==
  /\ last.op = "reply"
  /\ \E c \in Completions(last.calls) : ~last.calls[c].ok
  /\ Len(PreOf(last)) = 11
  /\ \E i \in 1..Len(PreOf(last)) : PreOf(last)[i].role = "assistant"
  /\ \E x \in DOMAIN active_sessions \ {last.sid} : active_sessions[x] # <<>>
  /\ last.result = Str(FallbackMsg)

\* C7: summarize_session returns None and makes no external call whenever the
\* session does not exist or its transcript holds no user or assistant turn.
C7_NoDialogueNoCall ==
  (/\ last.op = "summarize"
   /\ ~HasDialogue(PreOf(last)))
  => /\ last.result = NoneVal
     /\ last.calls = <<>>

\* s is a contiguous part of t
Contains(t, s) ==
  \E k \in 0..(Len(t) - Len(s)) : \A i \in 1..Len(s) : t[k + i] = s[i]

RowsOf(table, phone) == {r \in table.rows : r.phone = phone}

\* the instruction finalize_call sent: the user message of its completion call
Instruction(op) ==
  LET c == CHOOSE c \in Completions(op.calls) : TRUE
  IN op.calls[c].arg[2].content

\* what C8 says of the instruction and of the stored record
C8_InstructionAndRecord ==
  /\ Completions(lastMem.calls) # {} =>
       /\ Contains(Instruction(lastMem), lastMem.text)
       /\ \A r \in RowsOf(lastMem.pre, lastMem.sid) :
            /\ Contains(Instruction(lastMem), r.last_summary)
            /\ r.last_summary # <<>> =>
                 Contains(Instruction(lastMem), <<"PREVIOUS MEMORY:\n">>)
       /\ RowsOf(lastMem.pre, lastMem.sid) = {} =>
            ~Contains(Instruction(lastMem), <<"PREVIOUS MEMORY:\n">>)
  /\ lastMem.result.kind = "str" =>
       RowsOf(call_memory, lastMem.sid) = {Row(lastMem.sid, lastMem.result.val)}

C9_LastWriteWins ==
  /\ \A r1, r2 \in call_memory.rows : r1.phone = r2.phone => r1 = r2
  /\ \A p \in Phones :
       RowsOf(call_memory, p) =
         (IF written[p] = <<>> THEN {} ELSE {Row(p, written[p][Len(written[p])])})
  /\ (lastMem.op = "get" /\ lastMem.result # Raised) =>
       lastMem.result =
         (IF written[lastMem.sid] = <<>> THEN NoneVal
          ELSE Str(written[lastMem.sid][Len(written[lastMem.sid])]))
  /\ lastMem.op \in {"save", "finalize"} =>
       \A p \in Phones \ {lastMem.sid} :
         RowsOf(call_memory, p) = RowsOf(lastMem.pre, p)

\* a get that returns the second text upserted for its identity, which differs
\* from the first, while another identity has a record
C9_Witness ==
  /\ lastMem.op = "get"
  /\ Len(written[lastMem.sid]) = 2
  /\ written[lastMem.sid][1] # written[lastMem.sid][2]
  /\ lastMem.result = Str(written[lastMem.sid][2])
  /\ Cardinality(call_memory.rows) = 2

\* C10: clear_session removes the entry of the id, creates none, leaves every
\* other transcript as it was, and on an absent id leaves the store as it was
\* (so a second clear changes nothing).
C10_ClearIdempotent ==
  last.op = "clear" =>
    /\ DOMAIN active_sessions = DOMAIN last.pre \ {last.sid}
    /\ \A x \in DOMAIN active_sessions : active_sessions[x] = last.pre[x]
    /\ last.sid \notin DOMAIN last.pre => active_sessions = last.pre
    /\ clear_session(active_sessions, last.sid) = active_sessions

\* a clear of an absent id while another session holds a transcript
C10_Witness ==
  /\ last.op = "clear"
  /\ last.sid \notin DOMAIN last.pre
  /\ \E x \in DOMAIN active_sessions : Len(active_sessions[x]) >= 3

\* the reply call made its completion call and the call returned
ReplySucceeded(op) ==
  /\ op.op = "reply"
  /\ \E c \in Completions(op.calls) : op.calls[c].ok

\* the turns a successful reply appends: the utterance as given, and the
\* stripped content the completion service returned for the messages sent
ReplyPair(op) ==
  LET c == CHOOSE c \in Completions(op.calls) : TRUE
  IN <<Turn("user", op.text),
       Turn("assistant", Strip(ReplyContent(op.calls[c].arg)))>>

\* C11: a successful reply with a valid utterance on a fresh session id leaves
\* exactly [system, user u1, assistant r1]; a successful reply on that
\* transcript leaves exactly [system, user u1, assistant r1, user u2,
\* assistant r2], the first three turns untouched; clear on the id removes its
\* transcript; get_or_create on an id without a transcript leaves an empty
\* transcript, with no system turn.
C11_TwoRepliesThenClear ==
  /\ (ReplySucceeded(last) /\ PreOf(last) = <<>>) =>
       LET history == active_sessions[last.sid]
       IN /\ Len(history) = 3
          /\ history[1].role = "system"
          /\ SubSeq(history, 2, 3) = ReplyPair(last)
          /\ last.result = Str(history[3].content)
  /\ (ReplySucceeded(last) /\ Len(PreOf(last)) = 3 /\ AllRepliesSucceeded(PreOf(last))) =>
       LET history == active_sessions[last.sid]
       IN /\ history = PreOf(last) \o ReplyPair(last)
          /\ SystemCount(history) = 1
          /\ last.result = Str(history[5].content)
  /\ last.op = "clear" => last.sid \notin DOMAIN active_sessions
  /\ (last.op = "get_or_create" /\ PreOf(last) = <<>>) =>
       /\ last.sid \in DOMAIN active_sessions
       /\ active_sessions[last.sid] = <<>>

\* the second successful reply of a session whose first reply, on a fresh id,
\* succeeded: the transcript holds the system turn and four turns
C11_Witness ==
  /\ ReplySucceeded(last)
  /\ ValidUtterance(last.text)
  /\ Len(PreOf(last)) = 3 /\ AllRepliesSucceeded(PreOf(last))
  /\ Len(active_sessions[last.sid]) = 5
  /\ active_sessions[last.sid][2].content # active_sessions[last.sid][4].content

\* C12: when the completion call of finalize_call fails, no exception leaves
\* finalize_call (it returns a fallback or absent value) and the record stored
\* for the identity is the one stored before the call.
C12_FinalizeCatchesCompletionFailure ==
  (/\ lastMem.op = "finalize"
   /\ \E c \in Completions(lastMem.calls) : ~lastMem.calls[c].ok)
  => /\ lastMem.result # Raised
     /\ RowsOf(call_memory, lastMem.sid) = RowsOf(lastMem.pre, lastMem.sid)

\* the requests for a session id that have been served
Served(sid) ==
  {i \in 1..Len(requests) : requests[i].sid = sid /\ requests[i].status = "done"}

UserTurns(history) == Len(SelectSeq(history, LAMBDA m : m.role = "user"))

\* the transcript holds the request's user turn directly followed by the
\* reply it returned
HoldsPair(history, req) ==
  \E k \in 1..(Len(history) - 1) :
    /\ history[k] = Turn("user", req.text)
    /\ history[k + 1] = Turn("assistant", req.result.val)

\* two user turns adjacent, or a served request whose turns are not in the
\* stored transcript
Inconsistent(sid) ==
  \/ sid \notin DOMAIN active_sessions
  \/ LET history == active_sessions[sid]
     IN \/ \E k \in 1..(Len(history) - 1) :
             history[k].role = "user" /\ history[k + 1].role = "user"
        \/ \E i \in Served(sid) : ~HoldsPair(history, requests[i])
        \/ UserTurns(history) # Cardinality(Served(sid))

\* request j was received while request i, for the same session id, was still
\* waiting to be served, and both have been served with completion calls that
\* succeeded
ServedConcurrently(i, j) ==
  /\ i \in requests[j].inflight
  /\ requests[i].sid = requests[j].sid
  /\ requests[i].status = "done" /\ requests[j].status = "done"
  /\ requests[i].ok /\ requests[j].ok

C14_PendingUnitsRegistered ==
  \A i \in 1..Len(tasks) :
    tasks[i].status = "pending" =>
      /\ tasks[i].sid \in DOMAIN background_tasks
      /\ background_tasks[tasks[i].sid] = i

\* C15: once the shutdown handler has completed, every background
\* summarization unit that was pending when it was called has been cancelled,
\* and no scheduled unit is still to run.
C15_ShutdownCancelsAllPending ==
  shutdown.phase = "done" =>
    /\ \A i \in shutdown.pendingAt : tasks[i].status = "cancelled"
    /\ \A i \in 1..Len(tasks) : Finished(i)

\* C16: once the handler of a client-disconnected event has ended, the
\* pipeline task of the call has been cancelled, whatever the outcome of
\* finalize_call (nothing else cancels the task afterwards).
C16_DisconnectCancelsPipeline ==
  lastMem.op = "disconnect" => pipeline[lastMem.sid] = "cancelled"

\* C17: after the first valid reply of a session whose retrieval query
\* returned, the system turn differs from the base persona instruction only if
\* the index held a non-empty fragment for the query to return; with no
\* fragment returned it is exactly the base persona instruction.
C17_EnrichedOnlyWithFragments ==
  (/\ last.op = "reply"
   /\ client /\ ValidUtterance(last.text)
   /\ PreOf(last) = <<>>
   /\ Queries(last.calls) = {1} /\ last.calls[1].ok
   /\ \A f \in memory_collection : f.document = <<>>)
  => active_sessions[last.sid][1] = Turn("system", AGENT_SYSTEM_PROMPT)

\* C18: the message list of every completion call made by a reply is the
\* system turn followed by at most N = 8 user/assistant turns: the most recent
\* turns of the session, ending with the new user turn, in their stored order.
C18_CompletionGetsRetainedWindow ==
  last.op = "reply" =>
    \A c \in Completions(last.calls) :
      LET messages == last.calls[c].arg
          turns == Tail(messages)
          before == IF PreOf(last) = <<>> THEN <<>> ELSE Tail(PreOf(last))
          all == before \o <<Turn("user", last.text)>>
      IN /\ messages[1].role = "system"
         /\ \A i \in 1..Len(turns) : turns[i].role \in {"user", "assistant"}
         /\ turns = LastN(all, Len(turns))
         /\ Len(turns) <= KeepLast

\* what get_or_create_session leaves of a transcript of more than 9 turns
Trimmed(history) == <<history[1]>> \o SubSeq(history, Len(history) - 7, Len(history))

\* C19: no stored transcript holds more than 11 turns; a get_or_create that
\* finds more than 9 turns leaves the first turn followed by the last 8, in
\* their order (9 turns), and a reply that finds more than 9 turns appends to
\* exactly that.
C19_AtMostElevenTurns ==
  /\ \A sid \in DOMAIN active_sessions : Len(active_sessions[sid]) <= 11
  /\ (last.op = "get_or_create" /\ Len(PreOf(last)) > 9) =>
       /\ active_sessions[last.sid] = Trimmed(PreOf(last))
       /\ Len(active_sessions[last.sid]) = 9
  /\ (last.op = "get_or_create" /\ Len(PreOf(last)) <= 9) =>
       active_sessions[last.sid] = PreOf(last)
  /\ (last.op = "reply" /\ last.calls # <<>> /\ Len(PreOf(last)) > 9) =>
       SubSeq(active_sessions[last.sid], 1, 9) = Trimmed(PreOf(last))

\* a direct get_or_create that found the 11 turns five successful replies
\* leave, and left the system turn and the last four user/assistant pairs
C19_Witness ==
  /\ last.op = "get_or_create"
  /\ Len(PreOf(last)) = 11
  /\ Len(active_sessions[last.sid]) = 9
  /\ active_sessions[last.sid][1].role = "system"
  /\ active_sessions[last.sid][2].role = "user"
  /\ active_sessions[last.sid][9].role = "assistant"

====
